---- MODULE Spec2Model ----
(***************************************************************************)
(* A model of the Getting Started widget (project scaffolding) and of the  *)
(* workspace frontend contribution (open folder, multi-root workspace      *)
(* synthesis, save workspace as) of                                        *)
(* packages/getting-started/src/browser/getting-started-widget.tsx.        *)
(*                                                                         *)
(* Strings are sequences of tokens: a token is one character, or a literal *)
(* fragment of a static template that holds no placeholder.                *)
(***************************************************************************)
EXTENDS Integers, Sequences, FiniteSets, TLC

VARIABLES
    \* GettingStartedWidget fields (lines 84-88)
    projectName, blockchain, language, isDialogOpen, path,
    \* the runs of doCreateContract in progress or finished
    runs,
    \* template rendering on its own: the folder name and the rendered files
    tplFolderName, tplRendered,
    \* workspaceService.workspace?.resource, the content of the untitled
    \* workspace file, and what the last call of an open operation did
    workspace, untitledContent, lastCall,
    \* saveWorkspaceAs: where the running call stands, its locals (lines
    \* 1367-1369), the files the file service holds, what the current round
    \* of the dialog asked and was told, the calls of workspaceService.save
    \* with their outcome,
    \* what the call resolved to, and whether the error message was shown
    savePc, selected, exist, overwrite, existing, round, saveCalls, saveResult, errorShown,
    \* isOSX and environment.electron.is(), and what the last call of doOpen,
    \* doOpenFile or doOpenWorkspace did
    platform, openCall,
    \* the stop action onWillStop contributed and how far it has run
    stop,
    \* what the workspace service reports (opened, isMultiRootWorkspaceOpened,
    \* tryGetRoots()), and the context keys configure creates
    service, keys,
    \* the invocations of the NEW_CONTRACT_FOLDER and NEW_CONTRACT_FILE
    \* handlers: one for each run of doCreateContract, one for other callers
    handler

widgetVars == <<projectName, blockchain, language, isDialogOpen, path, runs>>
tplVars == <<tplFolderName, tplRendered>>
openVars == <<workspace, untitledContent, lastCall>>
saveVars == <<savePc, selected, exist, overwrite, existing, round, saveCalls, saveResult, errorShown>>
restVars == <<platform, openCall, stop, service, keys, handler>>
vars == <<widgetVars, tplVars, openVars, saveVars, restVars>>
notWidgetVars == <<tplVars, openVars, saveVars, restVars>>

----------------------------------------------------------------------------
(* Strings *)

\* The template literal ${a}/${b}
Join(a, b) == a \o <<"/">> \o b

\* The placeholder the regular expression /{folderName}/g matches.
PH == <<"{", "f", "o", "l", "d", "e", "r", "N", "a", "m", "e", "}">>

\* The token of the backquote character (U+0060), which a string of this
\* module cannot hold.
Backtick == "U+0060"

\* Does pat occur in str at position i (1-based)?
MatchesAt(str, pat, i) ==
    /\ i + Len(pat) - 1 <= Len(str)
    /\ \A j \in 1..Len(pat) : str[i + j - 1] = pat[j]

\* Does pat occur anywhere in str?
Contains(str, pat) == \E i \in 1..Len(str) : MatchesAt(str, pat, i)

\* The replacement text of one match: String.prototype.replace expands the
\* patterns $$, $&, $(backquote) and $' of a replacement string; with no capture
\* groups in the regular expression every other $ stays as it is.
RECURSIVE GetSubstitution(_, _, _, _)
GetSubstitution(matched, str, position, replacement) ==
    IF replacement = <<>> THEN <<>>
    ELSE IF Len(replacement) >= 2 /\ replacement[1] = "$" THEN
        LET c == replacement[2]
            rest == SubSeq(replacement, 3, Len(replacement))
        IN  IF c = "$" THEN <<"$">> \o GetSubstitution(matched, str, position, rest)
            ELSE IF c = "&" THEN matched \o GetSubstitution(matched, str, position, rest)
            ELSE IF c = Backtick THEN SubSeq(str, 1, position - 1)
                                     \o GetSubstitution(matched, str, position, rest)
            ELSE IF c = "'" THEN SubSeq(str, position + Len(matched), Len(str))
                                     \o GetSubstitution(matched, str, position, rest)
            ELSE <<"$">> \o GetSubstitution(matched, str, position, Tail(replacement))
    ELSE <<Head(replacement)>> \o GetSubstitution(matched, str, position, Tail(replacement))

\* str.replace(/pat/g, replacement), scanning str from position i.
RECURSIVE ReplaceFrom(_, _, _, _)
ReplaceFrom(str, pat, replacement, i) ==
    IF i > Len(str) THEN <<>>
    ELSE IF MatchesAt(str, pat, i)
         THEN GetSubstitution(pat, str, i, replacement)
                  \o ReplaceFrom(str, pat, replacement, i + Len(pat))
         ELSE <<str[i]>> \o ReplaceFrom(str, pat, replacement, i + 1)

ReplaceAll(str, pat, replacement) == ReplaceFrom(str, pat, replacement, 1)

----------------------------------------------------------------------------
(* The skeleton content *)

\* anchorTomlContent, lines 639-651: the literal text between two placeholders is one token.
anchorTomlContent ==
    <<"[programs.localnet]\n">>
    \o PH
    \o <<" = \"replace_with_actual_program_id\"\n\n[provider]\ncluster = \"localnet\"\nwallet = \"~/.config/solana/id.json\"\n\n[scripts]\ntest = \"anchor test --skip-build\"\n\n[idl]\nformat = \"json\"\n">>

\* cargoTomlContent, lines 653-667: the literal text between two placeholders is one token.
cargoTomlContent ==
    <<"[package]\nname = \"">>
    \o PH
    \o <<"\"\nversion = \"0.1.0\"\nedition = \"2021\"\n\n[dependencies]\nanchor-lang = \"0.28.0\"\nsolana-program = \"1.11.0\"\n\n[lib]\ncrate-type = [\"cdylib\", \"lib\"]\n\n[features]\nno-entrypoint = []\n">>

\* programRsContent, lines 669-709: the literal text between two placeholders is one token.
programRsContent ==
    <<"use anchor_lang::prelude::*;\n\ndeclare_id!(\"replace_with_actual_program_id\");\n\n#[program]\npub mod ">>
    \o PH
    \o <<" {\n    use super::*;\n\n    pub fn initialize(ctx: Context<Initialize>) -> Result<()> {\n        let base_account = &mut ctx.accounts.base_account;\n        base_account.data = 0;\n        Ok(())\n    }\n\n    pub fn increment(ctx: Context<Increment>) -> Result<()> {\n        let base_account = &mut ctx.accounts.base_account;\n        base_account.data += 1;\n        Ok(())\n    }\n}\n\n#[derive(Accounts)]\npub struct Initialize<'info> {\n    #[account(init, payer = user, space = 8 + 8)]\n    pub base_account: Account<'info, BaseAccount>,\n    #[account(mut)]\n    pub user: Signer<'info>,\n    pub system_program: Program<'info, System>,\n}\n\n#[derive(Accounts)]\npub struct Increment<'info> {\n    #[account(mut)]\n    pub base_account: Account<'info, BaseAccount>,\n}\n\n#[account]\npub struct BaseAccount {\n    pub data: u64;\n}\n">>

\* testTsContent, lines 711-743: the literal text between two placeholders is one token.
testTsContent ==
    <<"import * as anchor from \"@coral-xyz/anchor\";\nimport { Program } from \"@coral-xyz/anchor\";\nimport { ">>
    \o PH
    \o <<" } from \"../target/types/">>
    \o PH
    \o <<"\";\nimport { assert } from \"chai\";\n\ndescribe(\"">>
    \o PH
    \o <<" program\", () => {\n  const provider = anchor.AnchorProvider.env();\n  anchor.setProvider(provider);\n  const program = anchor.workspace.">>
    \o PH
    \o <<" as Program<">>
    \o PH
    \o <<">;\n\n  let baseAccount = anchor.web3.Keypair.generate();\n\n  it(\"Initializes the account\", async () => {\n    await program.methods.initialize().accounts({\n      baseAccount: baseAccount.publicKey,\n      user: provider.wallet.publicKey,\n      systemProgram: anchor.web3.SystemProgram.programId,\n    }).signers([baseAccount]).rpc();\n\n    const account = await program.account.baseAccount.fetch(baseAccount.publicKey);\n    assert.equal(account.data.toNumber(), 0);\n  });\n\n  it(\"Increments the account data\", async () => {\n    await program.methods.increment().accounts({\n      baseAccount: baseAccount.publicKey,\n    }).rpc();\n\n    const account = await program.account.baseAccount.fetch(baseAccount.publicKey);\n    assert.equal(account.data.toNumber(), 1);\n  });\n});\n">>

\* doCreateContract, lines 490-493: the four files rendered for a folder name.
RenderedContents(folderName) ==
    [anchorToml |-> ReplaceAll(anchorTomlContent, PH, folderName),
     cargoToml  |-> ReplaceAll(cargoTomlContent, PH, folderName),
     programRs  |-> ReplaceAll(programRsContent, PH, folderName),
     testTs     |-> ReplaceAll(testTsContent, PH, folderName)]

----------------------------------------------------------------------------
(* The modal form of the Getting Started widget *)

\* The <option> values of the two <select> elements, lines 402-417.
Blockchains == {"Ethereum", "Solana"}

LanguagesOf(bc) ==
    IF bc = "Ethereum" THEN {"Solidity", "Vyper"}
    ELSE IF bc = "Solana" THEN {"Native (Rust)", "Anchor (Rust)", "Seahorse (Python)"}
    ELSE {}

Languages == UNION {LanguagesOf(bc) : bc \in Blockchains}

\* What a user types into the project name field.
TypedNames == {<<>>, <<"d", "a", "p", "p">>}

\* What a user types into the path field, and the folders the folder dialog returns.
TypedPaths == {<<"C:">>, <<"D:", "/", "w">>}
DialogFolders == {<<"/", "C:">>, <<"/", "D:", "/", "w">>}

\* String.prototype.slice(1)
Slice1(s) == IF s = <<>> THEN <<>> ELSE Tail(s)

\* Invocations of doCreateContract the model follows.
MaxRuns == 1
RunIds == 1..MaxRuns

\* The k-th host command doCreateContract executes, in program order
\* (lines 486-505).
ContractCommand(k, targetDirectory, folderName) ==
    LET projectFolderPath == Join(targetDirectory, folderName)
    IN  CASE k = 1 -> [id |-> "NEW_CONTRACT_FOLDER", args |-> <<targetDirectory, folderName>>]
          [] k = 2 -> [id |-> "NEW_CONTRACT_FILE",
                       args |-> <<projectFolderPath, <<"Anchor.toml">>,
                                  RenderedContents(folderName).anchorToml>>]
          [] k = 3 -> [id |-> "NEW_CONTRACT_FILE",
                       args |-> <<projectFolderPath, <<"Cargo.toml">>,
                                  RenderedContents(folderName).cargoToml>>]
          [] k = 4 -> [id |-> "NEW_CONTRACT_FOLDER", args |-> <<projectFolderPath, <<"program">>>>]
          [] k = 5 -> [id |-> "NEW_CONTRACT_FILE",
                       args |-> <<Join(projectFolderPath, <<"program">>), folderName \o <<".rs">>,
                                  RenderedContents(folderName).programRs>>]
          [] k = 6 -> [id |-> "NEW_CONTRACT_FOLDER", args |-> <<projectFolderPath, <<"tests">>>>]
          [] k = 7 -> [id |-> "NEW_CONTRACT_FILE",
                       args |-> <<Join(projectFolderPath, <<"tests">>), folderName \o <<".ts">>,
                                  RenderedContents(folderName).testTs>>]
          [] k = 8 -> [id |-> "OPEN_SMART_CONTRACT", args |-> <<projectFolderPath>>]

NumCommands == 8

\* A run of doCreateContract: pc = 0 not started, pc = k awaiting its k-th
\* command, pc = Returned after the function returned.
Returned == NumCommands + 1

IdleRun ==
    [pc |-> 0, targetDirectory |-> <<>>, folderName |-> <<>>, bc |-> "unread",
     log |-> <<>>, pending |-> {}, failed |-> FALSE]

\* A call that is not awaited: the function goes on to its next call at once.
IssueNoAwait(run, k) ==
    LET cmd(i) == ContractCommand(i, run.targetDirectory, run.folderName)
    IN  IF k \in 2..(NumCommands - 1)
        THEN [run EXCEPT !.pc = k + 1,
                         !.log = @ \o <<cmd(k), cmd(k + 1)>>,
                         !.pending = @ \cup {k, k + 1}]
        ELSE [run EXCEPT !.pc = k, !.log = Append(@, cmd(k)), !.pending = @ \cup {k}]

\* await this.commandRegistry.executeCommand(...): the k-th command is
\* issued and the function is suspended until it settles.
Issue(run, k) ==
    [run EXCEPT !.pc = k,
                !.log = Append(@, ContractCommand(k, run.targetDirectory, run.folderName)),
                !.pending = @ \cup {k}]

\* A run that leaves out the call of line 498: the program folder is never
\* asked for, and its file is created right after Cargo.toml.
ResumeSkipsFolder(run, k, bc) ==
    IF k = 1
    THEN IF bc = "Solana"
         THEN Issue([run EXCEPT !.bc = bc], 2)
         ELSE [run EXCEPT !.bc = bc, !.pc = Returned]
    ELSE IF k = NumCommands
         THEN [run EXCEPT !.pc = Returned]
         ELSE IF k = 3 THEN Issue(run, 5) ELSE Issue(run, k + 1)

\* The function resumes after its k-th command resolved; bc is this.blockchain
\* as read at line 495.
Resume(run, k, bc) ==
    IF k = 1
    THEN IF bc = "Solana"
         THEN Issue([run EXCEPT !.bc = bc], 2)
         ELSE [run EXCEPT !.bc = bc, !.pc = Returned]
    ELSE IF k = NumCommands
         THEN [run EXCEPT !.pc = Returned]
         ELSE Issue(run, k + 1)

\* catch (error), lines 508-510
Catch(run) == [run EXCEPT !.pc = Returned, !.failed = TRUE]

\* renderDialogBox, line 384
isCreateButtonDisabled == projectName = <<>> \/ blockchain = "" \/ language = ""

\* toggleDialog, lines 596-599
toggleDialog ==
    /\ isDialogOpen' = ~isDialogOpen
    /\ UNCHANGED <<projectName, blockchain, language, path, runs, notWidgetVars>>

\* handleInputChange('projectName', value), lines 397 and 590-593
ChangeProjectName ==
    /\ isDialogOpen
    /\ \E value \in TypedNames : projectName' = value
    /\ UNCHANGED <<blockchain, language, isDialogOpen, path, runs, notWidgetVars>>

\* handleInputChange('blockchain', value), lines 402-406 and 590-593
ChangeBlockchain ==
    /\ isDialogOpen
    /\ \E value \in {""} \cup Blockchains : blockchain' = value
    /\ UNCHANGED <<projectName, language, isDialogOpen, path, runs, notWidgetVars>>

\* handleInputChange('language', value), lines 410-417 and 590-593: the
\* options offered are those of the blockchain selected now.
ChangeLanguage ==
    /\ isDialogOpen
    /\ \E value \in {""} \cup LanguagesOf(blockchain) : language' = value
    /\ UNCHANGED <<projectName, blockchain, isDialogOpen, path, runs, notWidgetVars>>

\* onChange of the path field, line 423
ChangePath ==
    /\ isDialogOpen
    /\ \E value \in TypedPaths : path' = value
    /\ UNCHANGED <<projectName, blockchain, language, isDialogOpen, runs, notWidgetVars>>

\* openFolderDialog, lines 620-634: a cancelled dialog changes nothing.
openFolderDialog ==
    /\ isDialogOpen
    /\ \/ UNCHANGED path
       \/ \E selectedFolder \in DialogFolders : path' = Slice1(selectedFolder)
    /\ UNCHANGED <<projectName, blockchain, language, isDialogOpen, runs, notWidgetVars>>

\* The Create Project button, lines 442-448: doCreateContract(this.path,
\* this.projectName) runs up to its first await. Runs are numbered in the
\* order they start.
PressCreateProject ==
    /\ isDialogOpen
    /\ ~isCreateButtonDisabled
    /\ \E r \in RunIds :
        /\ runs[r].pc = 0
        /\ \A q \in RunIds : q < r => runs[q].pc # 0
        /\ runs' = [runs EXCEPT ![r] =
                        Issue([IdleRun EXCEPT !.targetDirectory = path,
                                              !.folderName = projectName], 1)]
    /\ UNCHANGED <<projectName, blockchain, language, isDialogOpen, path, notWidgetVars>>

\* An outstanding command of run r resolves. The run resumes if it is the
\* command the run awaits.
CommandResolves ==
    \E r \in RunIds : \E k \in runs[r].pending :
        /\ LET left == [runs[r] EXCEPT !.pending = @ \ {k}]
           IN  runs' = [runs EXCEPT ![r] =
                            IF k = left.pc THEN Resume(left, k, blockchain) ELSE left]
        /\ UNCHANGED <<projectName, blockchain, language, isDialogOpen, path, notWidgetVars>>

\* An outstanding command of run r rejects. The awaiting run catches it.
CommandRejects ==
    \E r \in RunIds : \E k \in runs[r].pending :
        /\ LET left == [runs[r] EXCEPT !.pending = @ \ {k}]
           IN  runs' = [runs EXCEPT ![r] = IF k = left.pc THEN Catch(left) ELSE left]
        /\ UNCHANGED <<projectName, blockchain, language, isDialogOpen, path, notWidgetVars>>

WidgetInit ==
    /\ projectName = <<>>
    /\ blockchain = ""
    /\ language = ""
    /\ isDialogOpen = FALSE
    /\ path = <<"C:">>
    /\ runs = [r \in RunIds |-> IdleRun]

Next ==
    \/ toggleDialog
    \/ ChangeProjectName
    \/ ChangeBlockchain
    \/ ChangeLanguage
    \/ ChangePath
    \/ openFolderDialog
    \/ PressCreateProject
    \/ CommandResolves
    \/ CommandRejects

----------------------------------------------------------------------------
(* Template rendering on its own *)

\* The characters folder names are drawn from, and their greatest length.
NameChars == {"a", "$", "&", Backtick, "'"}
MaxNameLen == 3

FolderNames == UNION {[1..n -> NameChars] : n \in 0..MaxNameLen}

NotRendered == [anchorToml |-> <<>>, cargoToml |-> <<>>, programRs |-> <<>>, testTs |-> <<>>]

TemplateInit ==
    /\ tplFolderName \in FolderNames
    /\ tplRendered = NotRendered

\* doCreateContract, lines 490-493
RenderTemplates ==
    /\ tplRendered = NotRendered
    /\ tplRendered' = RenderedContents(tplFolderName)
    /\ UNCHANGED <<tplFolderName, widgetVars, openVars, saveVars, restVars>>

TemplateIdle ==
    /\ tplFolderName = <<>>
    /\ tplRendered = NotRendered

----------------------------------------------------------------------------
(* The workspace frontend contribution: opening folders *)

\* URIs, with path.toString() for a path; Undefined stands for undefined.
Uri(scheme, p) == [scheme |-> scheme, path |-> p]
Undefined == Uri("", "")

FolderA == Uri("file", "/a")
FolderB == Uri("file", "/b")
FileF == Uri("file", "/f.txt")
FileG == Uri("file", "/g.txt")
\* The URI this.workspaceService.getUntitledWorkspace() resolves to.
UntitledWorkspace == Uri("file", "/config/Untitled.theia-workspace")

Directories == {FolderA, FolderB}
PlainFiles == {FileF, FileG}
\* The untitled workspace file is missing until it is written.
OpenUris == Directories \cup PlainFiles \cup {UntitledWorkspace}

\* The untitled workspace file does not exist.
Absent == <<"absent">>

\* fileService.resolve(uri): the stat of uri, or a rejection for a missing one.
Stat(uri, content) ==
    IF uri \in Directories THEN [resource |-> uri, isDirectory |-> TRUE, isFile |-> FALSE, found |-> TRUE]
    ELSE IF uri \in PlainFiles \/ (uri = UntitledWorkspace /\ content # Absent)
         THEN [resource |-> uri, isDirectory |-> FALSE, isFile |-> TRUE, found |-> TRUE]
         ELSE [resource |-> uri, isDirectory |-> FALSE, isFile |-> FALSE, found |-> FALSE]

\* URI.isEqual
IsEqual(a, b) == a.scheme = b.scheme /\ a.path = b.path

\* What showOpenDialog resolves to: undefined, one URI, or an array of URIs.
MaxSelection == 2
NoSelection == [isArray |-> FALSE, uris |-> <<>>]
Selections ==
    {NoSelection}
        \cup {[isArray |-> FALSE, uris |-> <<u>>] : u \in OpenUris}
        \cup {[isArray |-> TRUE, uris |-> us] : us \in UNION {[1..n -> OpenUris] : n \in 0..MaxSelection}}

\* Array.from(new Set(list)): the first occurrence of each element, in order.
ArrayFromSet(list) ==
    LET first(i) == \A j \in 1..(i - 1) : list[j] # list[i]
        idx == {i \in 1..Len(list) : first(i)}
        RECURSIVE take(_)
        take(i) == IF i > Len(list) THEN <<>>
                   ELSE (IF i \in idx THEN <<list[i]>> ELSE <<>>) \o take(i + 1)
    IN  take(1)

\* A list of folders without the Set: every root's path, repeated as given.
FoldersNotDeduplicated(roots) == [i \in 1..Len(roots) |-> roots[i].resource.path]

\* createMultiRootWorkspace, line 1327: the paths of the roots, each once.
FoldersOf(roots) == ArrayFromSet([i \in 1..Len(roots) |-> roots[i].resource.path])

\* JSON.stringify({ folders }, null, 4), as tokens without the white space.
RECURSIVE StringifyFolders(_)
StringifyFolders(folders) ==
    IF folders = <<>> THEN <<>>
    ELSE <<"{", "path", ":", Head(folders), "}">>
             \o (IF Len(folders) > 1 THEN <<",">> ELSE <<>>)
             \o StringifyFolders(Tail(folders))

Stringify(folders) == <<"{", "folders", ":", "[">> \o StringifyFolders(folders) \o <<"]", "}">>

\* fileService.createFile(uri, content, { overwrite }) on the untitled
\* workspace file: it throws when the file exists and overwrite is not set,
\* or when the write fails.
CreateFile(before, content, overwriteOption, ioFails) ==
    IF ioFails \/ (before # Absent /\ ~overwriteOption)
    THEN [ok |-> FALSE, content |-> before, resource |-> Undefined]
    ELSE [ok |-> TRUE, content |-> content, resource |-> UntitledWorkspace]

\* createMultiRootWorkspace, lines 1325-1334
CreateMultiRootWorkspace(roots, before, ioFails) ==
    LET workspaceStat == CreateFile(before, Stringify(FoldersOf(roots)), TRUE, ioFails)
    IN  [rejected |-> ~workspaceStat.ok, uri |-> workspaceStat.resource,
         content |-> workspaceStat.content, made |-> TRUE, roots |-> roots]

\* With uris.length <= 2 in place of uris.length < 2.
GetOpenableWorkspaceUriOffByOne(selection, before, ioFails) ==
    LET uris == selection.uris
        stats == [i \in 1..Len(uris) |-> Stat(uris[i], before)]
        isDir(st) == st.isDirectory
        foldersToOpen == SelectSeq(stats, isDir)
        plain(u) == [rejected |-> FALSE, uri |-> u, content |-> before, made |-> FALSE, roots |-> <<>>]
    IN  IF ~selection.isArray THEN plain(uris[1])
        ELSE IF Len(uris) <= 2 THEN plain(IF uris = <<>> THEN Undefined ELSE uris[1])
        ELSE IF \E i \in 1..Len(uris) : ~stats[i].found
             THEN [rejected |-> TRUE, uri |-> Undefined, content |-> before, made |-> FALSE, roots |-> <<>>]
        ELSE IF Len(foldersToOpen) = 1 THEN plain(foldersToOpen[1].resource)
        ELSE CreateMultiRootWorkspace(foldersToOpen, before, ioFails)

\* getOpenableWorkspaceUri, lines 1307-1323, for a selection that is not
\* undefined: the URI it resolves to (or its rejection), the content of the
\* untitled workspace file afterwards, and whether it made a workspace, of
\* which roots.
GetOpenableWorkspaceUri(selection, before, ioFails) ==
    LET uris == selection.uris
        stats == [i \in 1..Len(uris) |-> Stat(uris[i], before)]
        isDir(st) == st.isDirectory
        foldersToOpen == SelectSeq(stats, isDir)
        plain(u) == [rejected |-> FALSE, uri |-> u, content |-> before, made |-> FALSE, roots |-> <<>>]
    IN  IF ~selection.isArray THEN plain(uris[1])
        ELSE IF Len(uris) < 2 THEN plain(IF uris = <<>> THEN Undefined ELSE uris[1])
        ELSE IF \E i \in 1..Len(uris) : ~stats[i].found
             THEN [rejected |-> TRUE, uri |-> Undefined, content |-> before, made |-> FALSE, roots |-> <<>>]
        ELSE IF Len(foldersToOpen) = 1 THEN plain(foldersToOpen[1].resource)
        ELSE CreateMultiRootWorkspace(foldersToOpen, before, ioFails)

\* The test of line 1280 left out: every openable URI is opened.
IsNewWorkspaceAlways(openableUri, current) == TRUE

\* doOpenFolder, line 1280
IsNewWorkspace(openableUri, current) ==
    current = Undefined \/ ~IsEqual(openableUri, current)

NoCall ==
    [op |-> "none", selection |-> NoSelection, workspaceBefore |-> Undefined,
     contentBefore |-> Absent, made |-> FALSE, roots |-> <<>>, openable |-> Undefined,
     status |-> "none", result |-> Undefined, opened |-> <<>>]

\* workspaceService.open(uri), which is not awaited: the workspace service
\* makes uri the current workspace, and refuses a URI that does not exist.
Open(uri, content, current) == IF Stat(uri, content).found THEN uri ELSE current

\* A write can fail only in a call that writes: for a selection of two or more.
WriteOutcomes(selection) ==
    IF selection.isArray /\ Len(selection.uris) >= 2 THEN BOOLEAN ELSE {FALSE}

\* doOpenFolder, lines 1266-1287, with the selection the dialog resolved to.
doOpenFolder ==
    /\ \E targetFolders \in Selections :
           LET call == [NoCall EXCEPT !.op = "doOpenFolder", !.selection = targetFolders,
                                      !.workspaceBefore = workspace,
                                      !.contentBefore = untitledContent]
           IN  IF targetFolders = NoSelection
               THEN /\ lastCall' = [call EXCEPT !.status = "resolved"]
                    /\ UNCHANGED <<workspace, untitledContent>>
               ELSE \E ioFails \in WriteOutcomes(targetFolders) :
                    \E got \in {GetOpenableWorkspaceUri(targetFolders, untitledContent, ioFails)} :
                    \E seen \in {[call EXCEPT !.made = got.made, !.roots = got.roots,
                                             !.openable = got.uri]} :
                        /\ untitledContent' = got.content
                        /\ IF got.rejected
                           THEN /\ lastCall' = [seen EXCEPT !.status = "rejected"]
                                /\ UNCHANGED workspace
                           ELSE IF got.uri # Undefined /\ IsNewWorkspace(got.uri, workspace)
                           THEN /\ lastCall' = [seen EXCEPT !.status = "resolved",
                                                            !.result = got.uri,
                                                            !.opened = <<got.uri>>]
                                /\ workspace' = Open(got.uri, got.content, workspace)
                           ELSE /\ lastCall' = [seen EXCEPT !.status = "resolved"]
                                /\ UNCHANGED workspace
    /\ UNCHANGED <<widgetVars, tplVars, saveVars, restVars>>

\* closeWorkspace, lines 1359-1361
closeWorkspace ==
    /\ workspace # Undefined
    /\ workspace' = Undefined
    /\ lastCall' = [NoCall EXCEPT !.op = "closeWorkspace", !.workspaceBefore = workspace,
                                  !.contentBefore = untitledContent, !.status = "resolved"]
    /\ UNCHANGED <<untitledContent, widgetVars, tplVars, saveVars, restVars>>

\* No workspace is open at the start; the untitled workspace file may be
\* left over from an earlier session.
OpenInit ==
    /\ workspace = Undefined
    /\ untitledContent \in {Absent, Stringify(<<FolderB.path>>)}
    /\ lastCall = NoCall

OpenIdle ==
    /\ workspace = Undefined
    /\ untitledContent = Absent
    /\ lastCall = NoCall

----------------------------------------------------------------------------
(* The workspace frontend contribution: saveWorkspaceAs *)

\* The URI of a file of the save dialog: its folder and its display name, a
\* sequence of tokens that ends with the extension, if it has one.
FileUri(parent, name) == [parent |-> parent, name |-> name]
NoUri == FileUri("", <<>>)

\* workspaceFileService.getWorkspaceFileExtensions(true), line 1377, and the
\* extension at defaultFileTypeIndex, line 1379.
WorkspaceFileExtensions == <<".theia-workspace", ".code-workspace">>
DefaultExtension == WorkspaceFileExtensions[1]

\* String.prototype.endsWith for an extension
EndsWith(name, ext) == name # <<>> /\ name[Len(name)] = ext

\* Lines 1376-1381: a name without a workspace extension gets the default one.
WithDefaultExtension(uri) ==
    IF \E i \in 1..Len(WorkspaceFileExtensions) : EndsWith(uri.name, WorkspaceFileExtensions[i])
    THEN uri
    ELSE FileUri(uri.parent, uri.name \o <<DefaultExtension>>)

\* What a user enters in the save dialog, and the files there can be.
TypedUris ==
    {FileUri("/home", <<"ws">>),
     FileUri("/home", <<"ws", ".theia-workspace">>),
     FileUri("/home", <<"ws", ".code-workspace">>)}

\* The greatest number of times the model lets a user decline to overwrite
\* within one call.
MaxDeclines == 2

NoRound ==
    [n |-> 0, typed |-> NoUri, asked |-> NoUri, reported |-> FALSE,
     confirmAsked |-> NoUri, confirmed |-> FALSE]

\* The loop test with the answer of the overwrite question read the wrong way round.
LoopAgainInverted(sel, ex, ow) == sel # NoUri /\ ex /\ ow

\* The dialog is shown again for every file that exists, whatever the answer
\* to the overwrite question.
LoopAgainWhateverAnswer(sel, ex, ow) == sel # NoUri /\ ex

\* while (selected && exist && !overwrite), line 1387
LoopAgain(sel, ex, ow) == sel # NoUri /\ ex /\ ~ow

\* The call returns true whether or not save threw.
ReturnTrueAfterSave(saved) == [result |-> "true", errorShown |-> ~saved]

\* Lines 1390-1397: what the call resolves to after workspaceService.save
\* resolved (saved) or threw.
ReturnAfterSave(saved) ==
    IF saved THEN [result |-> "true", errorShown |-> FALSE]
    ELSE [result |-> "false", errorShown |-> TRUE]

\* The end of one pass through the loop body (lines 1387-1397): show the
\* dialog again, call workspaceService.save, or return false.
AfterRound(sel, ex, ow) ==
    IF LoopAgain(sel, ex, ow)
    THEN /\ savePc' = "dialog"
         /\ UNCHANGED <<saveCalls, saveResult>>
    ELSE IF sel # NoUri
    THEN /\ savePc' = "save"
         /\ saveCalls' = Append(saveCalls, [uri |-> sel, outcome |-> "pending"])
         /\ UNCHANGED saveResult
    ELSE /\ savePc' = "returned"
         /\ saveResult' = "false"
         /\ UNCHANGED saveCalls

\* saveWorkspaceAs is called, lines 1366-1374: the first save dialog is shown.
saveWorkspaceAs ==
    /\ savePc \in {"idle", "returned"}
    /\ savePc' = "dialog"
    /\ selected' = NoUri
    /\ exist' = FALSE
    /\ overwrite' = FALSE
    /\ round' = NoRound
    /\ saveCalls' = <<>>
    /\ saveResult' = "none"
    /\ errorShown' = FALSE
    /\ UNCHANGED <<existing, widgetVars, tplVars, openVars, restVars>>

\* showSaveDialog resolves, lines 1371-1382: to undefined when cancelled, or
\* to the URI entered, whose existence is then asked for.
SaveDialogResolves ==
    /\ savePc = "dialog"
    /\ \E choice \in TypedUris \cup {NoUri} :
        /\ IF choice = NoUri
           THEN /\ selected' = NoUri
                /\ round' = [NoRound EXCEPT !.n = round.n + 1]
                /\ AfterRound(NoUri, exist, overwrite)
           ELSE /\ selected' = WithDefaultExtension(choice)
                /\ round' = [NoRound EXCEPT !.n = round.n + 1, !.typed = choice,
                                            !.asked = WithDefaultExtension(choice)]
                /\ savePc' = "exists"
                /\ UNCHANGED <<saveCalls, saveResult>>
    /\ UNCHANGED <<exist, overwrite, existing, errorShown, widgetVars, tplVars, openVars, restVars>>

\* fileService.exists(selected) resolves, lines 1382-1385
ExistsResolves ==
    /\ savePc = "exists"
    /\ exist' = (selected \in existing)
    /\ round' = [round EXCEPT !.reported = exist',
                              !.confirmAsked = IF exist' THEN selected ELSE NoUri]
    /\ IF exist'
       THEN /\ savePc' = "confirm"
            /\ UNCHANGED <<saveCalls, saveResult>>
       ELSE AfterRound(selected, exist', overwrite)
    /\ UNCHANGED <<selected, overwrite, existing, errorShown, widgetVars, tplVars, openVars, restVars>>

\* saveService.confirmOverwrite(selected) resolves, line 1384
ConfirmOverwriteResolves ==
    /\ savePc = "confirm"
    /\ \E answer \in BOOLEAN :
        /\ answer \/ round.n <= MaxDeclines
        /\ overwrite' = answer
        /\ round' = [round EXCEPT !.confirmed = answer]
        /\ AfterRound(selected, exist, answer)
    /\ UNCHANGED <<selected, exist, existing, errorShown, widgetVars, tplVars, openVars, restVars>>

\* workspaceService.save(selected) resolves, lines 1391-1392
SaveResolves ==
    /\ savePc = "save"
    /\ savePc' = "returned"
    /\ existing' = existing \cup {selected}
    /\ saveCalls' = [saveCalls EXCEPT ![Len(saveCalls)].outcome = "resolved"]
    /\ saveResult' = ReturnAfterSave(TRUE).result
    /\ errorShown' = ReturnAfterSave(TRUE).errorShown
    /\ UNCHANGED <<selected, exist, overwrite, round, widgetVars, tplVars, openVars, restVars>>

\* workspaceService.save(selected) throws, lines 1393-1397
SaveRejects ==
    /\ savePc = "save"
    /\ savePc' = "returned"
    /\ saveCalls' = [saveCalls EXCEPT ![Len(saveCalls)].outcome = "threw"]
    /\ saveResult' = ReturnAfterSave(FALSE).result
    /\ errorShown' = ReturnAfterSave(FALSE).errorShown
    /\ UNCHANGED <<selected, exist, overwrite, existing, round, widgetVars, tplVars, openVars, restVars>>

SaveIdleWith(files) ==
    /\ savePc = "idle"
    /\ selected = NoUri
    /\ exist = FALSE
    /\ overwrite = FALSE
    /\ existing = files
    /\ round = NoRound
    /\ saveCalls = <<>>
    /\ saveResult = "none"
    /\ errorShown = FALSE

\* Any of the files a user can name may exist at the start.
SaveInit ==
    \E files \in SUBSET {WithDefaultExtension(u) : u \in TypedUris} \cup {{FileUri("/home", <<"ws">>)}} :
        SaveIdleWith(files)

SaveIdle == SaveIdleWith({})

----------------------------------------------------------------------------
(* The workspace frontend contribution: doOpen, doOpenFile, doOpenWorkspace *)

\* isOSX and this.isElectron(): fixed for the lifetime of the application.
Platforms == [isOSX : BOOLEAN, electron : BOOLEAN]

\* The properties a dialog is shown with; NoDialog when none was shown.
DialogProps(folders, files, many) ==
    [canSelectFolders |-> folders, canSelectFiles |-> files, canSelectMany |-> many]
NoDialog == DialogProps(FALSE, FALSE, FALSE)

\* Lines 1231-1236, lines 1188-1193 and lines 1341-1346
OpenFileDialogProps == DialogProps(FALSE, TRUE, TRUE)
OpenDialogProps == DialogProps(TRUE, TRUE, TRUE)
OpenWorkspaceDialogProps == DialogProps(FALSE, TRUE, FALSE)

\* What a call did: the dialog it showed and what that resolved to, whether
\* the call resolved or rejected, whether it resolved to a value other than
\* undefined and to which URIs, the URIs it opened with the opener service,
\* and the URIs it handed to workspaceService.open.
NoOpenCall ==
    [op |-> "none", dialog |-> NoDialog, selection |-> NoSelection,
     workspaceBefore |-> Undefined, contentBefore |-> Absent, ioFailed |-> FALSE,
     status |-> "none", defined |-> FALSE, result |-> <<>>,
     openerOpened |-> <<>>, workspaceOpened |-> <<>>]

\* The outcome of a call, to be recorded in openCall and in the variables.
Outcome(status, defined, result, openerOpened, workspaceOpened, content) ==
    [status |-> status, defined |-> defined, result |-> result,
     openerOpened |-> openerOpened, workspaceOpened |-> workspaceOpened,
     content |-> content]

\* The loop of doOpenFile, lines 1244-1252: result and the files opened so
\* far are the same list; a URI that cannot be resolved rejects the call.
RECURSIVE OpenFiles(_, _, _)
OpenFiles(uris, content, result) ==
    IF uris = <<>> THEN Outcome("resolved", TRUE, result, result, <<>>, content)
    ELSE LET destination == Stat(Head(uris), content)
         IN  IF ~destination.found
             THEN Outcome("rejected", FALSE, <<>>, result, <<>>, content)
             ELSE IF destination.isFile
             THEN OpenFiles(Tail(uris), content, Append(result, Head(uris)))
             ELSE OpenFiles(Tail(uris), content, result)

\* doOpenFile, lines 1230-1255, with what the dialog resolved to
DoOpenFile(selectedFilesUris, content) ==
    IF selectedFilesUris = NoSelection
    THEN Outcome("resolved", FALSE, <<>>, <<>>, <<>>, content)
    ELSE OpenFiles(selectedFilesUris.uris, content, <<>>)

\* The loop of doOpen, lines 1198-1209: the folders to open, the files opened
\* with the opener service, and whether a URI could not be resolved.
RECURSIVE SortSelected(_, _, _, _, _)
SortSelected(uris, content, current, folders, files) ==
    IF uris = <<>> THEN [rejected |-> FALSE, folders |-> folders, files |-> files]
    ELSE LET uri == Head(uris)
             destination == Stat(uri, content)
         IN  IF ~destination.found
             THEN [rejected |-> TRUE, folders |-> folders, files |-> files]
             ELSE IF destination.isDirectory
             THEN SortSelected(Tail(uris), content, current,
                               IF current # uri THEN Append(folders, uri) ELSE folders, files)
             ELSE SortSelected(Tail(uris), content, current, folders, Append(files, uri))

\* Every platform is taken for Windows or Linux in electron.
IsFileOnlyPlatformAlways(p) == TRUE

\* doOpen, line 1184
IsFileOnlyPlatform(p) == ~p.isOSX /\ p.electron

\* doOpen, lines 1187-1219, where it does not defer to doOpenFile
DoOpenAny(selectedUris, content, current, ioFails) ==
    IF selectedUris = NoSelection
    THEN Outcome("resolved", FALSE, <<>>, <<>>, <<>>, content)
    ELSE LET sorted == SortSelected(selectedUris.uris, content, current, <<>>, <<>>)
             got == GetOpenableWorkspaceUri([isArray |-> TRUE, uris |-> sorted.folders],
                                            content, ioFails)
         IN  IF sorted.rejected
             THEN Outcome("rejected", FALSE, <<>>, sorted.files, <<>>, content)
             ELSE IF sorted.folders = <<>>
             THEN Outcome("resolved", TRUE, selectedUris.uris, sorted.files, <<>>, content)
             ELSE IF got.rejected
             THEN Outcome("rejected", FALSE, <<>>, sorted.files, <<>>, got.content)
             ELSE IF got.uri # Undefined /\ IsNewWorkspace(got.uri, current)
             THEN Outcome("resolved", TRUE, selectedUris.uris, sorted.files, <<got.uri>>,
                          got.content)
             ELSE Outcome("resolved", TRUE, selectedUris.uris, sorted.files, <<>>, got.content)

\* The selected workspace is opened whatever the current one is.
IsOtherWorkspaceAlways(workspaceFileUri, current) == workspaceFileUri # Undefined

\* doOpenWorkspace, lines 1349-1350
IsOtherWorkspace(workspaceFileUri, current) ==
    workspaceFileUri # Undefined /\ current # workspaceFileUri

\* doOpenWorkspace, lines 1340-1357, with what the dialog resolved to
DoOpenWorkspace(workspaceFileUri, content, current) ==
    IF IsOtherWorkspace(workspaceFileUri, current) /\ Stat(workspaceFileUri, content).found
    THEN Outcome("resolved", TRUE, <<workspaceFileUri>>, <<>>, <<workspaceFileUri>>, content)
    ELSE Outcome("resolved", FALSE, <<>>, <<>>, <<>>, content)

\* A call ends: its outcome is recorded, the untitled workspace file holds
\* what the call wrote, and the workspace service opens what it was given.
Finish(call, out) ==
    /\ openCall' = [call EXCEPT !.status = out.status, !.defined = out.defined,
                                !.result = out.result, !.openerOpened = out.openerOpened,
                                !.workspaceOpened = out.workspaceOpened]
    /\ untitledContent' = out.content
    /\ workspace' = IF out.workspaceOpened = <<>> THEN workspace
                    ELSE Open(out.workspaceOpened[1], out.content, workspace)

\* A call of op starts in the present state.
StartedCall(op, dialog, selection, ioFails) ==
    [NoOpenCall EXCEPT !.op = op, !.dialog = dialog, !.selection = selection,
                       !.workspaceBefore = workspace, !.contentBefore = untitledContent,
                       !.ioFailed = ioFails]

\* The entries the dialogs of these calls list, and what a dialog with
\* canSelectMany resolves to: undefined, one URI, or an array of URIs.
ListedUris == {FolderA, FolderB, FileF, UntitledWorkspace}
ListedSelections ==
    {NoSelection}
        \cup {[isArray |-> FALSE, uris |-> <<u>>] : u \in ListedUris}
        \cup {[isArray |-> TRUE, uris |-> us] : us \in UNION {[1..n -> ListedUris] : n \in 0..MaxSelection}}

\* What the Open Workspace dialog resolves to: undefined or one file.
WorkspaceFileSelections ==
    {NoSelection} \cup {[isArray |-> FALSE, uris |-> <<u>>] : u \in {FileF, FileG, UntitledWorkspace}}

\* A write can fail only in a call that writes: with two or more folders.
DoOpenWriteOutcomes(selectedUris, content, current) ==
    LET sorted == SortSelected(selectedUris.uris, content, current, <<>>, <<>>)
    IN  IF ~sorted.rejected /\ Len(sorted.folders) >= 2 THEN BOOLEAN ELSE {FALSE}

\* doOpenFile, lines 1230-1255
doOpenFile ==
    /\ \E selectedFilesUris \in ListedSelections :
       \E out \in {DoOpenFile(selectedFilesUris, untitledContent)} :
           Finish(StartedCall("doOpenFile", OpenFileDialogProps, selectedFilesUris, FALSE), out)
    /\ UNCHANGED <<lastCall, platform, widgetVars, tplVars, saveVars, stop, service, keys, handler>>

\* doOpen, lines 1183-1220
doOpen ==
    /\ \E selectedUris \in ListedSelections :
           IF IsFileOnlyPlatform(platform)
           THEN \E out \in {DoOpenFile(selectedUris, untitledContent)} :
                    Finish(StartedCall("doOpen", OpenFileDialogProps, selectedUris, FALSE), out)
           ELSE \E ioFails \in DoOpenWriteOutcomes(selectedUris, untitledContent, workspace) :
                \E out \in {DoOpenAny(selectedUris, untitledContent, workspace, ioFails)} :
                    Finish(StartedCall("doOpen", OpenDialogProps, selectedUris, ioFails), out)
    /\ UNCHANGED <<lastCall, platform, widgetVars, tplVars, saveVars, stop, service, keys, handler>>

\* doOpenWorkspace, lines 1340-1357
doOpenWorkspace ==
    /\ \E selection \in WorkspaceFileSelections :
       \E workspaceFileUri \in {IF selection = NoSelection THEN Undefined ELSE selection.uris[1]} :
       \E out \in {DoOpenWorkspace(workspaceFileUri, untitledContent, workspace)} :
           Finish(StartedCall("doOpenWorkspace", OpenWorkspaceDialogProps, selection, FALSE), out)
    /\ UNCHANGED <<lastCall, platform, widgetVars, tplVars, saveVars, stop, service, keys, handler>>

FileInit ==
    /\ platform \in Platforms
    /\ openCall = NoOpenCall

FileIdle ==
    /\ platform = [isOSX |-> FALSE, electron |-> FALSE]
    /\ openCall = NoOpenCall

----------------------------------------------------------------------------
(* The workspace frontend contribution: onWillStop *)

\* StopReason, and what UntitledWorkspaceExitDialog.open() resolves to:
\* one of its two answers, or undefined when it is cancelled.
StopReasons == {"Close", "Reload", "Restart"}
ExitDialogAnswers == {"Don't Save", "Save", "undefined"}

\* workspaceService.isUntitledWorkspace
IsUntitledWorkspace(uri) == uri = UntitledWorkspace

\* The stop action of one stop of the application: whether onWillStop
\* returned an action, the reason and the answer of isSafeToReload, what
\* prepare resolved to, what the exit dialog resolved to, and what the action
\* resolved to ("true" allows the exit, "false" prevents it).
NoStop ==
    [pc |-> "idle", contributes |-> FALSE, reason |-> "none", safeToReload |-> FALSE,
     alreadyConfirmedSafe |-> FALSE, shouldSaveFile |-> "none", result |-> "none"]

\* prepare, line 1448
Prepare(reason, safeToReload) == reason = "Reload" /\ safeToReload

\* A cancelled exit dialog lets the application exit.
AfterExitDialogCancelExits(shouldSaveFile) ==
    IF shouldSaveFile = "Save" THEN "save" ELSE "true"

\* action, lines 1456-1461: what follows the answer of the exit dialog
AfterExitDialog(shouldSaveFile) ==
    IF shouldSaveFile = "Don't Save" THEN "true"
    ELSE IF shouldSaveFile = "Save" THEN "save"
    ELSE "false"

\* onWillStop, lines 1444-1469: an action is returned for an untitled
\* workspace only. The application asks again after an exit was prevented.
onWillStop ==
    /\ stop.pc = "idle" \/ (stop.pc = "done" /\ stop.result # "true")
    /\ stop' = IF workspace # Undefined /\ IsUntitledWorkspace(workspace)
               THEN [NoStop EXCEPT !.pc = "prepare", !.contributes = TRUE]
               ELSE [NoStop EXCEPT !.pc = "done"]
    /\ UNCHANGED <<widgetVars, tplVars, openVars, saveVars, platform, openCall, service, keys, handler>>

\* prepare is called with the reason of the stop and resolves, line 1448
PrepareResolves ==
    /\ stop.pc = "prepare"
    /\ \E reason \in StopReasons : \E safeToReload \in BOOLEAN :
           stop' = [stop EXCEPT !.pc = "action", !.reason = reason,
                                !.safeToReload = safeToReload,
                                !.alreadyConfirmedSafe = Prepare(reason, safeToReload)]
    /\ UNCHANGED <<widgetVars, tplVars, openVars, saveVars, platform, openCall, service, keys, handler>>

\* action is called with what prepare resolved to, lines 1449-1455: it
\* returns true, or shows the exit dialog.
ActionCalled ==
    /\ stop.pc = "action"
    /\ stop' = IF stop.alreadyConfirmedSafe
               THEN [stop EXCEPT !.pc = "done", !.result = "true"]
               ELSE [stop EXCEPT !.pc = "dialog"]
    /\ UNCHANGED <<widgetVars, tplVars, openVars, saveVars, platform, openCall, service, keys, handler>>

\* The exit dialog resolves, lines 1456-1461. For Save the action calls
\* saveWorkspaceAs, which runs up to its first save dialog (lines 1366-1374).
ExitDialogResolves ==
    /\ stop.pc = "dialog"
    /\ savePc \in {"idle", "returned"}
    /\ \E shouldSaveFile \in ExitDialogAnswers :
           IF AfterExitDialog(shouldSaveFile) = "save"
           THEN /\ stop' = [stop EXCEPT !.pc = "saving", !.shouldSaveFile = shouldSaveFile]
                /\ savePc' = "dialog"
                /\ selected' = NoUri
                /\ exist' = FALSE
                /\ overwrite' = FALSE
                /\ round' = NoRound
                /\ saveCalls' = <<>>
                /\ saveResult' = "none"
                /\ errorShown' = FALSE
                /\ UNCHANGED existing
           ELSE /\ stop' = [stop EXCEPT !.pc = "done", !.shouldSaveFile = shouldSaveFile,
                                        !.result = AfterExitDialog(shouldSaveFile)]
                /\ UNCHANGED saveVars
    /\ UNCHANGED <<widgetVars, tplVars, openVars, platform, openCall, service, keys, handler>>

\* return this.saveWorkspaceAs(), line 1459: the action resolves to what
\* saveWorkspaceAs resolved to.
SaveWorkspaceAsReturns ==
    /\ stop.pc = "saving"
    /\ savePc = "returned"
    /\ stop' = [stop EXCEPT !.pc = "done", !.result = saveResult]
    /\ UNCHANGED <<widgetVars, tplVars, openVars, saveVars, platform, openCall, service, keys, handler>>

\* The workspace that is open when the application is stopped: none, a
\* folder, or the untitled workspace of two folders.
StopInit ==
    /\ stop = NoStop
    /\ lastCall = NoCall
    /\ \E opened \in {Undefined, FolderA, UntitledWorkspace} :
        /\ workspace = opened
        /\ untitledContent = IF opened = UntitledWorkspace
                             THEN Stringify(<<FolderA.path, FolderB.path>>)
                             ELSE Absent

StopIdle == stop = NoStop

----------------------------------------------------------------------------
(* The workspace frontend contribution: the context keys of configure *)

\* The most roots the model gives a workspace.
MaxRoots == 2

\* What the workspace service reports: opened, isMultiRootWorkspaceOpened and
\* tryGetRoots(). No workspace has no roots; an opened folder is its own
\* root once the roots are known; a workspace file lists any number of roots.
ServiceState(opened, multiRoot, roots) ==
    [opened |-> opened, isMultiRootWorkspaceOpened |-> multiRoot, roots |-> roots]

ServiceStates ==
    {ServiceState(FALSE, FALSE, <<>>)}
        \cup {ServiceState(TRUE, FALSE, r) : r \in {<<>>} \cup {<<d>> : d \in Directories}}
        \cup {ServiceState(TRUE, TRUE, r) : r \in UNION {[1..n -> Directories] : n \in 0..MaxRoots}}

\* WorkspaceStates, lines 794-807
WorkspaceStates == {"empty", "workspace", "folder"}

\* The context keys before configure has created them: their values, what
\* set them last, and whether the workspace has changed since.
NoKeys ==
    [created |-> FALSE, workspaceFolderCount |-> 0, workspaceState |-> "empty",
     workbenchState |-> "empty", setBy |-> "none", stale |-> FALSE]

\* The two states of an opened workspace the wrong way round.
DoUpdateStateSwapped(s) ==
    IF s.opened
    THEN IF s.isMultiRootWorkspaceOpened THEN "folder" ELSE "workspace"
    ELSE "empty"

\* doUpdateState, lines 1416-1421
DoUpdateState(s) ==
    IF s.opened
    THEN IF s.isMultiRootWorkspaceOpened THEN "workspace" ELSE "folder"
    ELSE "empty"

\* updateWorkspaceStateKey and updateWorkbenchStateKey, lines 1408-1414
UpdateWorkspaceStateKey(s) == DoUpdateState(s)
UpdateWorkbenchStateKey(s) == DoUpdateState(s)

\* The three updates of lines 847-848, 851-852 and 855-856, which the
\* listener of lines 859-865 repeats.
UpdatedKeys(s, by) ==
    [created |-> TRUE, workspaceFolderCount |-> Len(s.roots),
     workspaceState |-> UpdateWorkspaceStateKey(s),
     workbenchState |-> UpdateWorkbenchStateKey(s), setBy |-> by, stale |-> FALSE]

\* configure, lines 838-866: the keys are created and set once.
configure ==
    /\ ~keys.created
    /\ keys' = UpdatedKeys(service, "configure")
    /\ UNCHANGED <<service, widgetVars, tplVars, openVars, saveVars, platform, openCall, stop, handler>>

\* The listener registered at line 859 runs for a workspace-changed event.
onWorkspaceChanged ==
    /\ keys.created
    /\ keys' = UpdatedKeys(service, "onWorkspaceChanged")
    /\ UNCHANGED <<service, widgetVars, tplVars, openVars, saveVars, platform, openCall, stop, handler>>

\* The workspace service changes its workspace or its roots; the keys hold
\* what they held until the listener runs.
WorkspaceChanges ==
    /\ \E s \in ServiceStates \ {service} : service' = s
    /\ keys' = [keys EXCEPT !.stale = keys.created]
    /\ UNCHANGED <<widgetVars, tplVars, openVars, saveVars, platform, openCall, stop, handler>>

KeyInit ==
    /\ service \in ServiceStates
    /\ keys = NoKeys

KeyIdle ==
    /\ service = ServiceState(FALSE, FALSE, <<>>)
    /\ keys = NoKeys

----------------------------------------------------------------------------
(* The NEW_CONTRACT_FOLDER and NEW_CONTRACT_FILE commands *)

\* An invocation for each run of doCreateContract, and invocation 0 for a
\* caller that is not doCreateContract.
OtherCaller == 0
Slots == {OtherCaller} \cup RunIds

ContractCommandIds == {"NEW_CONTRACT_FOLDER", "NEW_CONTRACT_FILE"}

\* One invocation of a handler: where it stands, the command and which of
\* the run's commands it serves, the name to create, whether parentUri is
\* defined, what getDirectory resolved to (the candidate, its parent, or
\* nothing), how the creation call ended, the events fired, what was logged
\* last, and how the promise of the handler settled.
NoHandler ==
    [pc |-> "idle", command |-> "none", k |-> 0, name |-> <<>>, parentUri |-> FALSE,
     parent |-> "none", creation |-> "none", fired |-> <<>>, logged |-> "none",
     settled |-> "none"]

\* folderName || 'Untitled', line 977; fileName, line 1010
NameToCreate(command, name) ==
    IF command = "NEW_CONTRACT_FOLDER" /\ name = <<>> THEN <<"Untitled">> ELSE name

\* targetDirectory ? new URI(...) : uri, lines 972 and 1000
HasParentUri(targetDirectory, uriGiven) ==
    IF targetDirectory # <<>> THEN TRUE ELSE uriGiven

\* The handler runs up to its first await. NEW_CONTRACT_FILE reads
\* parentUri.toString() (line 1004), which throws for an undefined parentUri
\* and is caught (lines 1026-1028).
Started(command, k, targetDirectory, name, uriGiven) ==
    LET h == [NoHandler EXCEPT !.command = command, !.k = k,
                               !.name = NameToCreate(command, name),
                               !.parentUri = HasParentUri(targetDirectory, uriGiven)]
    IN  IF command = "NEW_CONTRACT_FILE" /\ ~h.parentUri
        THEN [h EXCEPT !.pc = "settled", !.logged = "error", !.settled = "resolved"]
        ELSE [h EXCEPT !.pc = "getDirectory"]

\* getDirectory, lines 1079-1096: the candidate if it is a directory, else
\* its parent if that can be resolved, else undefined. It never rejects.
DirectoryOutcomes(h) ==
    IF h.parentUri THEN {"candidate", "candidate.parent", "none"} ELSE {"none"}

\* Lines 976-987 and 1009-1025: with a parent the creation is called, and
\* without one a warning is logged and the handler returns.
AfterGetDirectory(h, parent) ==
    IF parent # "none"
    THEN [h EXCEPT !.pc = "create", !.parent = parent, !.creation = "pending"]
    ELSE [h EXCEPT !.pc = "settled", !.logged = "warn", !.settled = "resolved"]

\* The event of lines 982 and 1020
DidCreateNewResourceEvent(h) == [parent |-> "parentUri", uri |-> [in |-> h.parent, name |-> h.name]]

\* A handler without its catch: a failed creation rejects the command.
AfterCreationUncaught(h, ok) ==
    IF ok
    THEN [h EXCEPT !.pc = "settled", !.creation = "resolved",
                   !.fired = Append(@, DidCreateNewResourceEvent(h)),
                   !.logged = "created", !.settled = "resolved"]
    ELSE [h EXCEPT !.pc = "settled", !.creation = "rejected", !.settled = "rejected"]

\* Lines 981-984 and 1019-1022 after the creation resolved, and the catch of
\* lines 988-990 and 1026-1028 after it threw.
AfterCreation(h, ok) ==
    IF ok
    THEN [h EXCEPT !.pc = "settled", !.creation = "resolved",
                   !.fired = Append(@, DidCreateNewResourceEvent(h)),
                   !.logged = "created", !.settled = "resolved"]
    ELSE [h EXCEPT !.pc = "settled", !.creation = "rejected",
                   !.logged = "error", !.settled = "resolved"]

\* A caller other than doCreateContract executes one of the two commands,
\* with or without a target directory and a uri, and without a name.
ExecuteCommand ==
    /\ handler[OtherCaller].pc = "idle"
    /\ \E command \in ContractCommandIds :
       \E targetDirectory \in {<<>>, <<"C:">>} :
       \E name \in {<<>>} :
       \E uriGiven \in BOOLEAN :
           handler' = [handler EXCEPT ![OtherCaller] =
                           Started(command, 0, targetDirectory, name, uriGiven)]
    /\ UNCHANGED <<widgetVars, tplVars, openVars, saveVars, platform, openCall, stop, service, keys>>

\* The command a run of doCreateContract awaits reaches its handler.
HandlerStarts ==
    /\ \E r \in RunIds :
        /\ handler[r].pc = "idle"
        /\ runs[r].pc \in runs[r].pending
        /\ LET cmd == runs[r].log[Len(runs[r].log)]
           IN  /\ cmd.id \in ContractCommandIds
               /\ handler' = [handler EXCEPT ![r] =
                                  Started(cmd.id, runs[r].pc, cmd.args[1], cmd.args[2], FALSE)]
    /\ UNCHANGED <<widgetVars, tplVars, openVars, saveVars, platform, openCall, stop, service, keys>>

\* await this.getDirectory(parentUri) resolves, lines 974 and 1007
GetDirectoryResolves ==
    /\ \E s \in Slots :
        /\ handler[s].pc = "getDirectory"
        /\ \E parent \in DirectoryOutcomes(handler[s]) :
               handler' = [handler EXCEPT ![s] = AfterGetDirectory(handler[s], parent)]
    /\ UNCHANGED <<widgetVars, tplVars, openVars, saveVars, platform, openCall, stop, service, keys>>

\* fileService.createFolder or createFile resolves, lines 981 and 1019
CreationResolves ==
    /\ \E s \in Slots :
        /\ handler[s].pc = "create"
        /\ handler' = [handler EXCEPT ![s] = AfterCreation(handler[s], TRUE)]
    /\ UNCHANGED <<widgetVars, tplVars, openVars, saveVars, platform, openCall, stop, service, keys>>

\* fileService.createFolder or createFile throws
CreationRejects ==
    /\ \E s \in Slots :
        /\ handler[s].pc = "create"
        /\ handler' = [handler EXCEPT ![s] = AfterCreation(handler[s], FALSE)]
    /\ UNCHANGED <<widgetVars, tplVars, openVars, saveVars, platform, openCall, stop, service, keys>>

\* The other caller has seen its command settle.
CommandReturns ==
    /\ handler[OtherCaller].pc = "settled"
    /\ handler' = [handler EXCEPT ![OtherCaller] = NoHandler]
    /\ UNCHANGED <<widgetVars, tplVars, openVars, saveVars, platform, openCall, stop, service, keys>>

\* The command a run awaits has settled: the run resumes after a command
\* that resolved and catches one that rejected (lines 486-510).
AwaitedCommandSettles ==
    /\ \E r \in RunIds :
        /\ handler[r].pc = "settled"
        /\ LET left == [runs[r] EXCEPT !.pending = @ \ {handler[r].k}]
           IN  runs' = [runs EXCEPT ![r] =
                            IF handler[r].settled = "resolved"
                            THEN Resume(left, handler[r].k, blockchain)
                            ELSE Catch(left)]
        /\ handler' = [handler EXCEPT ![r] = NoHandler]
    /\ UNCHANGED <<projectName, blockchain, language, isDialogOpen, path,
                   tplVars, openVars, saveVars, platform, openCall, stop, service, keys>>

\* OPEN_SMART_CONTRACT, the last command of a run, resolves or rejects.
OpenSmartContractSettles ==
    /\ \E r \in RunIds :
        /\ runs[r].pc = NumCommands
        /\ NumCommands \in runs[r].pending
        /\ LET left == [runs[r] EXCEPT !.pending = @ \ {NumCommands}]
           IN  \E ok \in BOOLEAN :
                   runs' = [runs EXCEPT ![r] =
                                IF ok THEN Resume(left, NumCommands, blockchain) ELSE Catch(left)]
    /\ UNCHANGED <<projectName, blockchain, language, isDialogOpen, path, notWidgetVars>>

\* The form is filled in and can be submitted.
FilledFormInit ==
    /\ projectName \in TypedNames \ {<<>>}
    /\ blockchain \in Blockchains
    /\ language = CHOOSE l \in LanguagesOf(blockchain) : TRUE
    /\ isDialogOpen = TRUE
    /\ path = <<"C:">>
    /\ runs = [r \in RunIds |-> IdleRun]

HandlerIdle == handler = [s \in Slots |-> NoHandler]

\* Nothing but the part a specification follows ever runs.
RestIdle == FileIdle /\ StopIdle /\ KeyIdle /\ HandlerIdle

----------------------------------------------------------------------------
(* Properties of doCreateContract *)

\* A command as the registry sees it, without the content of a file: its id,
\* the directory and the name.
Shape(cmd) == <<cmd.id>> \o SubSeq(cmd.args, 1, IF Len(cmd.args) < 2 THEN Len(cmd.args) ELSE 2)

ShapesOf(log) == [i \in 1..Len(log) |-> Shape(log[i])]

IsPrefix(s, t) == Len(s) <= Len(t) /\ \A i \in 1..Len(s) : s[i] = t[i]

\* The commands of a Solana project, with P = targetDirectory/folderName.
SolanaCommands(targetDirectory, folderName) ==
    LET P == targetDirectory \o <<"/">> \o folderName
    IN  << <<"NEW_CONTRACT_FOLDER", targetDirectory, folderName>>,
           <<"NEW_CONTRACT_FILE", P, <<"Anchor.toml">>>>,
           <<"NEW_CONTRACT_FILE", P, <<"Cargo.toml">>>>,
           <<"NEW_CONTRACT_FOLDER", P, <<"program">>>>,
           <<"NEW_CONTRACT_FILE", P \o <<"/", "program">>, folderName \o <<".rs">>>>,
           <<"NEW_CONTRACT_FOLDER", P, <<"tests">>>>,
           <<"NEW_CONTRACT_FILE", P \o <<"/", "tests">>, folderName \o <<".ts">>>>,
           <<"OPEN_SMART_CONTRACT", P>> >>

RunSucceeded(run) == run.pc = Returned /\ ~run.failed

\* C1: a run of doCreateContract that read blockchain = 'Solana' and whose
\* commands all succeeded has issued exactly the eight commands of a Solana
\* project, in their order (every file after its folder, the open command
\* last and once); at every moment what a run has issued is a prefix of them.
C1_SolanaCommandSequence ==
    \A r \in RunIds :
        LET run == runs[r]
            expected == SolanaCommands(run.targetDirectory, run.folderName)
        IN  /\ IsPrefix(ShapesOf(run.log), expected)
            /\ (RunSucceeded(run) /\ run.bc = "Solana") => ShapesOf(run.log) = expected

C1_Witness ==
    \E r \in RunIds :
        /\ RunSucceeded(runs[r])
        /\ runs[r].bc = "Solana"
        /\ Len(runs[r].log) = NumCommands

\* C2: every run started by the Create Project button (which is enabled only
\* with project name, blockchain and language filled in) whose commands all
\* succeeded has asked for the folders of the project and for its four
\* template files, whatever blockchain and language were chosen.
C2_CreatesTreeAndTemplates ==
    \A r \in RunIds :
        RunSucceeded(runs[r]) =>
            \A i \in 1..(NumCommands - 1) :
                \E j \in 1..Len(runs[r].log) :
                    Shape(runs[r].log[j]) = SolanaCommands(runs[r].targetDirectory, runs[r].folderName)[i]

\* C3: a run never has two commands outstanding: the only command that can
\* be outstanding is the one the run issued last and is waiting for.
C3_OneOutstandingCommand ==
    \A r \in RunIds :
        /\ Cardinality(runs[r].pending) <= 1
        /\ runs[r].pending \subseteq {Len(runs[r].log)}
        /\ runs[r].pending \subseteq {runs[r].pc}

C3_Witness ==
    \E r \in RunIds :
        /\ runs[r].pending = {4}
        /\ Len(runs[r].log) = 4

----------------------------------------------------------------------------
(* Properties of the rendered templates *)

\* str with every occurrence of pat replaced by the text name, copied as it is.
RECURSIVE PlainSubstitute(_, _, _, _)
PlainSubstitute(str, pat, name, i) ==
    IF i > Len(str) THEN <<>>
    ELSE IF MatchesAt(str, pat, i)
         THEN name \o PlainSubstitute(str, pat, name, i + Len(pat))
         ELSE <<str[i]>> \o PlainSubstitute(str, pat, name, i + 1)

\* C4: each rendered file is its template with every {folderName} replaced
\* by the folder name and nothing else changed, and holds no {folderName}.
C4_TemplatesSubstituted ==
    tplRendered # NotRendered =>
        /\ tplRendered.anchorToml = PlainSubstitute(anchorTomlContent, PH, tplFolderName, 1)
        /\ tplRendered.cargoToml = PlainSubstitute(cargoTomlContent, PH, tplFolderName, 1)
        /\ tplRendered.programRs = PlainSubstitute(programRsContent, PH, tplFolderName, 1)
        /\ tplRendered.testTs = PlainSubstitute(testTsContent, PH, tplFolderName, 1)
        /\ \A f \in DOMAIN tplRendered : ~Contains(tplRendered[f], PH)

----------------------------------------------------------------------------
(* Properties of opening folders *)

\* The positions of the paths listed in the content of a workspace file.
PathPositions(content) ==
    {i \in 3..Len(content) : content[i - 2] = "path" /\ content[i - 1] = ":"}

ListedPaths(content) == {content[i] : i \in PathPositions(content)}

RootPaths(roots) == {roots[i].resource.path : i \in 1..Len(roots)}

FirstRoot(roots, p) ==
    CHOOSE i \in 1..Len(roots) :
        /\ roots[i].resource.path = p
        /\ \A j \in 1..(i - 1) : roots[j].resource.path # p

\* The number of tokens of a workspace file that lists n folders.
TokensFor(n) == 6 + 5 * n + (IF n = 0 THEN 0 ELSE n - 1)

CallResolved == lastCall.op = "doOpenFolder" /\ lastCall.status = "resolved"

OnlyFiles(selection, content) ==
    \A i \in 1..Len(selection.uris) : Stat(selection.uris[i], content).isFile

\* C8: a call of doOpenFolder whose selection is empty or holds only files
\* resolves to undefined, opens nothing and writes no workspace file.
C8_NothingForFilesOnly ==
    (lastCall.op = "doOpenFolder" /\ OnlyFiles(lastCall.selection, lastCall.contentBefore)) =>
        /\ lastCall.status = "resolved"
        /\ lastCall.result = Undefined
        /\ lastCall.opened = <<>>
        /\ ~lastCall.made
        /\ untitledContent = lastCall.contentBefore

\* C9: a call of doOpenFolder whose openable URI is the workspace that is
\* open resolves to undefined and opens nothing.
C9_SameWorkspaceNotOpened ==
    (CallResolved /\ lastCall.workspaceBefore # Undefined
        /\ lastCall.openable = lastCall.workspaceBefore) =>
        /\ lastCall.result = Undefined
        /\ lastCall.opened = <<>>
        /\ workspace = lastCall.workspaceBefore

C9_Witness ==
    /\ CallResolved
    /\ lastCall.workspaceBefore \in {FolderA, UntitledWorkspace}
    /\ lastCall.openable = lastCall.workspaceBefore

\* The folders among the URIs of a selection.
SelectedFolders(selection) ==
    {selection.uris[i] : i \in {j \in 1..Len(selection.uris) : selection.uris[j] \in Directories}}

NumSelectedFolders(selection) ==
    Cardinality({j \in 1..Len(selection.uris) : selection.uris[j] \in Directories})

\* C10: a call of doOpenFolder that does not resolve to undefined resolves to
\* the one URI it passed to workspaceService.open: the selected folder if one
\* folder was selected, and the untitled workspace file, which lists the
\* selected folders, if several were.
C10_ResolvesToOpenedWorkspace ==
    (CallResolved /\ lastCall.result # Undefined) =>
        /\ lastCall.opened = <<lastCall.result>>
        /\ NumSelectedFolders(lastCall.selection) = 1 =>
               lastCall.result \in SelectedFolders(lastCall.selection)
        /\ NumSelectedFolders(lastCall.selection) >= 2 =>
               /\ lastCall.result = UntitledWorkspace
               /\ ListedPaths(untitledContent) =
                      {u.path : u \in SelectedFolders(lastCall.selection)}

C10_Witness ==
    /\ CallResolved
    /\ lastCall.result = UntitledWorkspace
    /\ lastCall.selection = [isArray |-> TRUE, uris |-> <<FolderB, FolderA>>]
    /\ workspace = UntitledWorkspace

----------------------------------------------------------------------------
(* Properties of saveWorkspaceAs *)

\* C6: every URI passed to workspaceService.save is the URI whose existence
\* was asked for in the last round of the dialog (the URI with its
\* extension, not the one entered), and if the file service reported it as
\* existing, the user was asked about that URI and confirmed to overwrite it.
C6_SaveOnlyConfirmedOverwrite ==
    \A i \in 1..Len(saveCalls) :
        /\ round.asked = saveCalls[i].uri
        /\ \E j \in 1..Len(WorkspaceFileExtensions) :
               EndsWith(saveCalls[i].uri.name, WorkspaceFileExtensions[j])
        /\ round.reported =>
               /\ round.confirmAsked = saveCalls[i].uri
               /\ round.confirmed

C6_Witness ==
    /\ Len(saveCalls) = 1
    /\ round.n >= 2
    /\ round.reported
    /\ round.confirmed
    /\ round.typed # saveCalls[1].uri
    /\ round.typed \in existing

\* C7: a call that returned resolved to true or false; to true exactly when
\* workspaceService.save was called and resolved; a cancelled dialog gives
\* false without a call of save; a save that threw gives false and the error
\* message.
C7_TrueExactlyWhenSaved ==
    savePc = "returned" =>
        /\ saveResult \in {"true", "false"}
        /\ saveResult = "true" <=>
               (saveCalls # <<>> /\ saveCalls[Len(saveCalls)].outcome = "resolved")
        /\ round.typed = NoUri => (saveResult = "false" /\ saveCalls = <<>>)
        /\ (saveCalls # <<>> /\ saveCalls[Len(saveCalls)].outcome = "threw") =>
               (saveResult = "false" /\ errorShown)
        /\ errorShown => (saveCalls # <<>> /\ saveCalls[Len(saveCalls)].outcome = "threw")

C7_Witness ==
    /\ savePc = "returned"
    /\ saveResult = "false"
    /\ errorShown
    /\ Len(saveCalls) = 1

----------------------------------------------------------------------------
(* Properties of doOpenFile, doOpen and doOpenWorkspace *)

CallEnded(op) == openCall.op = op /\ openCall.status # "none"

SelectedStats == [i \in 1..Len(openCall.selection.uris) |->
                      Stat(openCall.selection.uris[i], openCall.contentBefore)]

SomeSelected(P(_)) == \E i \in 1..Len(SelectedStats) : P(SelectedStats[i])

IsMissing(st) == ~st.found
IsFolder(st) == st.isDirectory
IsPlainFile(st) == st.isFile

\* C11: doOpenFile resolves to undefined if the workspace root is not set, if
\* a selected file does not exist, or if a selected entry is a directory;
\* otherwise it resolves to the URIs of the selected files, each of which it
\* opened with the opener service.
C11_DoOpenFileContract ==
    CallEnded("doOpenFile") /\ openCall.selection # NoSelection =>
        /\ openCall.status = "resolved"
        /\ IF \/ openCall.workspaceBefore = Undefined
              \/ SomeSelected(IsMissing)
              \/ SomeSelected(IsFolder)
           THEN ~openCall.defined
           ELSE /\ openCall.defined
                /\ openCall.result = openCall.selection.uris
                /\ openCall.openerOpened = openCall.selection.uris

C13_OpensOtherExistingWorkspace ==
    CallEnded("doOpenWorkspace") =>
        LET chosen == openCall.selection # NoSelection
            workspaceFileUri == IF chosen THEN openCall.selection.uris[1] ELSE Undefined
        IN  /\ openCall.status = "resolved"
            /\ IF /\ chosen
                  /\ workspaceFileUri # openCall.workspaceBefore
                  /\ Stat(workspaceFileUri, openCall.contentBefore).found
               THEN /\ openCall.defined
                    /\ openCall.result = <<workspaceFileUri>>
                    /\ openCall.workspaceOpened = <<workspaceFileUri>>
               ELSE /\ ~openCall.defined
                    /\ openCall.workspaceOpened = <<>>

\* A call that replaced an open workspace by the selected workspace file.
C13_Witness ==
    /\ CallEnded("doOpenWorkspace")
    /\ openCall.workspaceBefore # Undefined
    /\ openCall.defined
    /\ openCall.workspaceOpened = openCall.selection.uris
    /\ workspace = openCall.selection.uris[1]

----------------------------------------------------------------------------
(* Properties of onWillStop *)

\* C14: onWillStop contributes an action exactly when an untitled workspace
\* is open. The action allows the exit only if the stop was confirmed safe
\* (the reason is Reload and the workspace is safe to reload), or the answer
\* of the exit dialog is Don't Save, or it is Save and saveWorkspaceAs
\* resolved to true; a cancelled dialog and a failed or cancelled save
\* prevent the exit.
C14_ExitOnlyWhenSettled ==
    /\ stop.pc # "idle" =>
           (stop.contributes <=> workspace # Undefined /\ workspace = UntitledWorkspace)
    /\ stop.pc = "done" /\ ~stop.contributes => stop.result = "none"
    /\ stop.pc = "done" /\ stop.contributes =>
           /\ stop.result \in {"true", "false"}
           /\ stop.result = "true" <=>
                  \/ stop.reason = "Reload" /\ stop.safeToReload
                  \/ stop.shouldSaveFile = "Don't Save"
                  \/ /\ stop.shouldSaveFile = "Save"
                     /\ saveResult = "true"
                     /\ Len(saveCalls) = 1
                     /\ saveCalls[1].outcome = "resolved"

\* The user chose Save and the exit waited for a save that succeeded after
\* an overwrite was confirmed.
C14_Witness ==
    /\ stop.pc = "done"
    /\ stop.contributes
    /\ ~stop.alreadyConfirmedSafe
    /\ stop.shouldSaveFile = "Save"
    /\ stop.result = "true"
    /\ round.confirmed

----------------------------------------------------------------------------
(* Properties of the context keys *)

\* C15: after configure and after every workspace-changed event the keys
\* workspaceState and workbenchState hold 'empty' exactly when no workspace is
\* opened, 'workspace' exactly when a multi-root workspace is opened and
\* 'folder' exactly when a single folder is opened, and workspaceFolderCount
\* is the number of roots; the two keys are equal at all times.
C15_KeysFollowWorkspace ==
    keys.created =>
        /\ keys.workspaceState = keys.workbenchState
        /\ ~keys.stale =>
               /\ keys.workspaceState = "empty" <=> ~service.opened
               /\ keys.workspaceState = "workspace" <=>
                      service.opened /\ service.isMultiRootWorkspaceOpened
               /\ keys.workspaceState = "folder" <=>
                      service.opened /\ ~service.isMultiRootWorkspaceOpened
               /\ keys.workspaceState \in WorkspaceStates
               /\ keys.workspaceFolderCount = Len(service.roots)

\* The listener has run after a folder was replaced by a workspace of two roots.
C15_Witness ==
    /\ keys.created
    /\ keys.setBy = "onWorkspaceChanged"
    /\ ~keys.stale
    /\ keys.workspaceState = "workspace"
    /\ keys.workspaceFolderCount = 2
    /\ service.isMultiRootWorkspaceOpened

----------------------------------------------------------------------------
(* Properties of the NEW_CONTRACT_FOLDER and NEW_CONTRACT_FILE commands *)

----------------------------------------------------------------------------
(* Properties of the loop of saveWorkspaceAs *)

\* The round that ended last: the file it chose exists and the user declined
\* to overwrite it.
DeclinedOverwrite ==
    /\ round.typed # NoUri
    /\ round.reported
    /\ round.confirmAsked = round.asked
    /\ ~round.confirmed

\* A round has ended: the call is neither inside a round nor before its first.
BetweenRounds == round.n >= 1 /\ savePc \in {"dialog", "save", "returned"}

\* The save dialog is shown again exactly when the last round ended with an
\* existing file whose overwrite was declined; workspaceService.save is called
\* only after the prompting stopped, and at most once.
PromptsAgainOnlyAfterDecline ==
    /\ BetweenRounds => (savePc = "dialog" <=> DeclinedOverwrite)
    /\ savePc \in {"dialog", "exists", "confirm"} => saveCalls = <<>>
    /\ Len(saveCalls) <= 1

\* C17: saveWorkspaceAs shows the save dialog again exactly when the file
\* chosen in the previous round exists and the user declined to overwrite it,
\* it calls workspaceService.save at most once per invocation, and a call
\* whose user does not decline for ever returns.
C17_PromptsUntilSettled ==
    /\ []PromptsAgainOnlyAfterDecline
    /\ (savePc = "dialog") ~> (savePc = "returned")

\* A call that showed the dialog a second time after a declined overwrite
\* and then saved once.
C17_Witness ==
    /\ savePc = "returned"
    /\ round.n >= 2
    /\ Len(saveCalls) = 1
    /\ saveResult = "true"

----------------------------------------------------------------------------
(* Specifications *)

Init == WidgetInit /\ TemplateIdle /\ OpenIdle /\ SaveIdle /\ RestIdle

Spec == Init /\ [][Next]_vars

TemplateSpecInit == TemplateInit /\ WidgetInit /\ OpenIdle /\ SaveIdle /\ RestIdle

TemplateNext == RenderTemplates

TemplateSpec == TemplateSpecInit /\ [][TemplateNext]_vars

OpenSpecInit == OpenInit /\ WidgetInit /\ TemplateIdle /\ SaveIdle /\ RestIdle

OpenNext ==
    \/ doOpenFolder
    \/ closeWorkspace

OpenSpec == OpenSpecInit /\ [][OpenNext]_vars

SaveSpecInit == SaveInit /\ WidgetInit /\ TemplateIdle /\ OpenIdle /\ RestIdle

SaveNext ==
    \/ saveWorkspaceAs
    \/ SaveDialogResolves
    \/ ExistsResolves
    \/ ConfirmOverwriteResolves
    \/ SaveResolves
    \/ SaveRejects

SaveSpec == SaveSpecInit /\ [][SaveNext]_vars

FileNext ==
    \/ doOpenFile
    \/ doOpen
    \/ doOpenWorkspace

FileSpecInit ==
    OpenIdle /\ FileInit /\ WidgetInit /\ TemplateIdle /\ SaveIdle /\ StopIdle /\ KeyIdle /\ HandlerIdle

FileSpec == FileSpecInit /\ [][FileNext]_vars

StopNext ==
    \/ onWillStop
    \/ PrepareResolves
    \/ ActionCalled
    \/ ExitDialogResolves
    \/ SaveDialogResolves
    \/ ExistsResolves
    \/ ConfirmOverwriteResolves
    \/ SaveResolves
    \/ SaveRejects
    \/ SaveWorkspaceAsReturns

StopSpecInit ==
    StopInit /\ SaveInit /\ WidgetInit /\ TemplateIdle /\ FileIdle /\ KeyIdle /\ HandlerIdle

StopSpec == StopSpecInit /\ [][StopNext]_vars

KeyNext ==
    \/ configure
    \/ onWorkspaceChanged
    \/ WorkspaceChanges

KeySpecInit ==
    KeyInit /\ WidgetInit /\ TemplateIdle /\ OpenIdle /\ SaveIdle /\ FileIdle /\ StopIdle /\ HandlerIdle

KeySpec == KeySpecInit /\ [][KeyNext]_vars

CommandNext ==
    \/ PressCreateProject
    \/ ExecuteCommand
    \/ HandlerStarts
    \/ GetDirectoryResolves
    \/ CreationResolves
    \/ CreationRejects
    \/ CommandReturns
    \/ AwaitedCommandSettles
    \/ OpenSmartContractSettles

CommandSpecInit ==
    FilledFormInit /\ HandlerIdle /\ TemplateIdle /\ OpenIdle /\ SaveIdle /\ FileIdle /\ StopIdle /\ KeyIdle

CommandSpec == CommandSpecInit /\ [][CommandNext]_vars

\* Every awaited dialog, question and save settles in the end.
SaveLiveSpec ==
    /\ SaveSpecInit
    /\ [][SaveNext]_vars
    /\ WF_vars(SaveDialogResolves)
    /\ WF_vars(ExistsResolves)
    /\ WF_vars(ConfirmOverwriteResolves)
    /\ WF_vars(SaveResolves \/ SaveRejects)

====
